---- MODULE Spec2Model ----
(***************************************************************************)
(* Model of the DocumentCloud Google entity extractor add-on (main.py).    *)
(*                                                                         *)
(* One add-on process walks the documents of a run.  For every document it *)
(* splits the page texts into chunks for the entity extraction API, shifts *)
(* the returned mention offsets to document offsets, maps the entities to  *)
(* DocumentCloud entity ids, collapses them and posts occurrence records   *)
(* in groups of BULK_LIMIT.                                                *)
(*                                                                         *)
(* A text is a sequence of runs [n, w]: n characters that each take w      *)
(* bytes in UTF-8.  len() counts the characters, encode("utf8") the bytes. *)
(***************************************************************************)
EXTENDS Integers, Sequences, FiniteSets, TLC

\* ------------------------------------------------------------------ constants
BYTE_LIMIT == 1000000
BULK_LIMIT == 25

\* ------------------------------------------------------------------ bounds
MaxPages == 3        \* pages of a document in the chunking specification
MaxFound == 2        \* entities the text of a pipeline document holds
NumDocs == 2         \* documents get_documents returns at most
MaxRuns == 2         \* invocations of the add-on on the same document
MaxMapLen == 3       \* pages of an offset map in the reconciler specification
MaxGap == 3          \* distance of two boundaries of such an offset map

\* ------------------------------------------------------------------ values
NoUrl == -1          \* the entity's metadata holds no wikipedia_url
NoneId == 0          \* Python None as a wikidata id

\* ------------------------------------------------------------------ texts
Run(n, w) == [n |-> n, w |-> w]

RECURSIVE Len_(_)
\* len(text): the number of characters (code points)
Len_(text) == IF text = <<>> THEN 0 ELSE Head(text).n + Len_(Tail(text))

RECURSIVE Utf8Len(_)
\* len(text.encode("utf8")): the number of bytes
Utf8Len(text) ==
    IF text = <<>> THEN 0 ELSE Head(text).n * Head(text).w + Utf8Len(Tail(text))

\* "\n\n"
Separator == <<Run(2, 1)>>

RECURSIVE Join(_)
\* "".join(texts)
Join(ts) == IF ts = <<>> THEN <<>> ELSE Head(ts) \o Join(Tail(ts))

Last(s) == s[Len(s)]

RECURSIVE SeqsUpTo(_, _)
\* the sequences over S of length at most n
SeqsUpTo(S, n) ==
    IF n = 0 THEN {<<>>}
    ELSE LET shorter == SeqsUpTo(S, n - 1)
         IN shorter \cup {Append(s, x) : s \in shorter, x \in S}

\* ------------------------------------------------------------------ pages
pEmpty == <<>>                               \* an empty page
pSmall == <<Run(500, 1)>>                    \* 500 characters, 500 bytes
pHalf  == <<Run(500000, 1)>>                 \* two of them are BYTE_LIMIT bytes
pWide  == <<Run(250000, 2), Run(1, 1)>>      \* 250001 characters, 500001 bytes
pOver  == <<Run(300000, 4)>>                 \* 300000 characters, 1200000 bytes

ChunkPool == {pEmpty, pSmall, pHalf, pWide, pOver}
\* the page layouts of the pipeline documents: no page, one chunk, two chunks
PipeLayouts == {<<>>, <<pWide>>, <<pWide, pWide>>}

\* in-page offsets a mention is placed at: the first character, character 10,
\* the last character of the separator that follows the page
Probes(page) ==
    {0, Len_(page) + 1} \cup (IF Len_(page) > 10 THEN {10} ELSE {})

Positions(pages) ==
    UNION {{<<p - 1, k>> : k \in Probes(pages[p])} : p \in 1..Len(pages)}

\* what the text of a document holds: entities with a salience and the
\* places <<page, in-page offset>> of their mentions
FoundEntity(url, at) == [url |-> url, at |-> at]

ChunkFound(pages) ==
    {<<>>} \cup {<<FoundEntity(1, <<pos>>)>> : pos \in Positions(pages)}

\* the members of S, listed
Listed(S) == {x : x \in S}

ChunkDocs ==
    Listed(UNION {{[pages |-> p, found |-> f, recorded |-> {}] :
                        f \in ChunkFound(p)} :
                  p \in SeqsUpTo(ChunkPool, MaxPages)})

\* url 0 is unknown to the mapper, urls 1 and 2 name the same wikidata item
PipeUrls == {NoUrl, 0, 1, 2, 3}

\* an entity is mentioned at the start of the first page; the entity of url
\* 1 may also be mentioned at the start of every page
PipeEntities(pages) ==
    {FoundEntity(u, <<<<0, 0>>>>) : u \in PipeUrls}
    \cup {FoundEntity(1, [p \in 1..Len(pages) |-> <<p - 1, 0>>])}

PipeFound(pages) ==
    IF pages = <<>> THEN {<<>>} ELSE SeqsUpTo(PipeEntities(pages), MaxFound)

\* a page that names BULK_LIMIT + 1 distinct entities
BulkFound == [n \in 1..(BULK_LIMIT + 1) |-> FoundEntity(n + 2, <<<<0, 0>>>>)]

\* the mapper: wikipedia url -> wikidata id
UrlToId(url) ==
    IF url = 0 THEN NoneId ELSE IF url = 1 THEN 1 ELSE url - 1

\* the id the catalog gives the entity of a wikidata id
CatalogId(wid) == 100 + wid

PipeDocs ==
    Listed(
        UNION {{[pages |-> p, found |-> f, recorded |-> r] :
                    f \in PipeFound(p), r \in {{}, {CatalogId(1)}}} :
               p \in PipeLayouts}
        \cup {[pages |-> <<pSmall>>, found |-> BulkFound, recorded |-> {}]}
        \cup {[pages |-> <<pWide, pWide, pOver>>,
                found |-> <<FoundEntity(1, <<<<0, 0>>>>)>>, recorded |-> {}]})

\* ------------------------------------------------------------------ state
VARIABLES
    pc,                \* where the process is
    run,               \* the invocation of the add-on: 1, 2, ...
    ndocs,             \* the number of documents get_documents returns
    docIdx,            \* the documents the loop of main has taken so far
    errors,            \* self.errors
    successes,         \* self.successes
    message,           \* the message set_message has set
    outcome,           \* how extract_entities ended for the last document
    pages,             \* all_page_text["pages"]: the page contents
    found,             \* the entities the text of the document holds
    i,                 \* the pages the page loop has taken so far
    texts,
    total_bytes,
    page_map,
    character_offset,
    total_characters,
    entities,
    existing_entities,
    entity_map,        \* wikidata id -> DocumentCloud entity id
    create_groups,     \* the groups of missing ids still to be created
    collapsed_entities,
    taken,             \* the entities the collapse loop has taken so far
    occurrence_json,
    submit_groups,     \* the groups of occurrence_json still to be posted
    catalog,           \* remote: the wikidata ids that have an entity
    recorded,          \* remote: the entity ids recorded for the document
    accepted,          \* remote: the entity ids the add-on has put on the document
    prior,             \* accepted, when the run started
    chunks,            \* log: the calls of extract_entities_text
    lookups,           \* log: the GET entities/ requests
    creates,           \* log: the POST entities/ requests
    posts              \* log: the POST documents/{id}/entities/ requests

main_vars == <<pc, run, ndocs, docIdx, errors, successes, message, outcome>>
doc_vars == <<pages, found>>
loop_vars == <<i, texts, total_bytes, page_map, character_offset,
               total_characters, entities>>
occ_vars == <<existing_entities, entity_map, create_groups, collapsed_entities,
              taken, occurrence_json, submit_groups>>
remote_vars == <<catalog, recorded, accepted, prior>>
log_vars == <<chunks, lookups, creates, posts>>
vars == <<main_vars, doc_vars, loop_vars, occ_vars, remote_vars, log_vars>>

\* the locals of extract_entities before the page loop
FreshLocals ==
    /\ i = 0
    /\ texts = <<>>
    /\ total_bytes = 0
    /\ page_map = <<0>>
    /\ character_offset = 0
    /\ total_characters = 0
    /\ entities = <<>>
    /\ existing_entities = {}
    /\ entity_map = <<>>
    /\ create_groups = <<>>
    /\ collapsed_entities = <<>>
    /\ taken = 0
    /\ occurrence_json = <<>>
    /\ submit_groups = <<>>
    /\ chunks = <<>>
    /\ lookups = <<>>
    /\ creates = <<>>
    /\ posts = <<>>

\* extract_entities starts: its locals are set anew
ResetLocals ==
    /\ i' = 0
    /\ texts' = <<>>
    /\ total_bytes' = 0
    /\ page_map' = <<0>>
    /\ character_offset' = 0
    /\ total_characters' = 0
    /\ entities' = <<>>
    /\ existing_entities' = {}
    /\ entity_map' = <<>>
    /\ create_groups' = <<>>
    /\ collapsed_entities' = <<>>
    /\ taken' = 0
    /\ occurrence_json' = <<>>
    /\ submit_groups' = <<>>
    /\ chunks' = <<>>
    /\ lookups' = <<>>
    /\ creates' = <<>>
    /\ posts' = <<>>

\* GCPEntityExtractor(): a new process, no document taken yet
Init ==
    /\ pc = "main"
    /\ run = 1
    /\ ndocs \in 1..NumDocs
    /\ docIdx = 0
    /\ errors = 0
    /\ successes = 0
    /\ message = "none"
    /\ outcome = "none"
    /\ pages = <<>>
    /\ found = <<>>
    /\ catalog = {}
    /\ recorded = {}
    /\ accepted = {}
    /\ prior = {}
    /\ FreshLocals

\* ------------------------------------------------------------------ main
\* main: the loop takes the next document, get_json_text returns its pages
StartDocument(Docs) ==
    /\ pc = "main"
    /\ docIdx < ndocs
    /\ \E doc \in Docs :
        /\ run > 1 => doc.pages = pages /\ doc.found = found
        /\ pages' = doc.pages
        /\ found' = doc.found
        /\ recorded' = IF run > 1 THEN recorded ELSE doc.recorded
    /\ accepted' = IF run > 1 THEN accepted ELSE {}
    /\ docIdx' = docIdx + 1
    /\ pc' = "pages"
    /\ outcome' = "running"
    /\ ResetLocals
    /\ UNCHANGED <<run, ndocs, errors, successes, message, catalog, prior>>

\* extract_entities: get_json_text raises DoesNotExistError
DocumentMissing ==
    /\ pc = "main"
    /\ docIdx < ndocs
    /\ run = 1
    /\ docIdx' = docIdx + 1
    /\ message' = "missing"
    /\ outcome' = "missing"
    /\ pc' = "exited"
    /\ pages' = <<>>
    /\ found' = <<>>
    /\ ResetLocals
    /\ UNCHANGED <<run, ndocs, errors, successes, remote_vars>>

\* main: get_documents is exhausted, the process ends
MainDone ==
    /\ pc = "main"
    /\ docIdx = ndocs
    /\ pc' = "finished"
    /\ UNCHANGED <<run, ndocs, docIdx, errors, successes, message, outcome,
                   doc_vars, loop_vars, occ_vars, remote_vars, log_vars>>

\* ------------------------------------------------------------------ extraction
\* the characters of the chunk before its page j (0-based)
ChunkStart(txts, j) == Len_(Join(SubSeq(txts, 1, j)))

\* the extraction API on a chunk that holds the pages first .. first+Len(txts)-1:
\* the entities mentioned there, mention offsets relative to the chunk
AnalyzeEntities(fnd, txts, first) ==
    LET here(f) == SelectSeq(f.at, LAMBDA pos :
                        pos[1] >= first /\ pos[1] < first + Len(txts))
        idx == SelectSeq([x \in 1..Len(fnd) |-> x],
                         LAMBDA x : here(fnd[x]) # <<>>)
    IN [y \in 1..Len(idx) |->
          LET f == fnd[idx[y]]
              m == here(f)
          IN [url |-> f.url,
              salience |-> 10 * idx[y] + first,
              wikidata_id |-> NoneId,
              mentions |-> [z \in 1..Len(m) |->
                  [content |-> m[z],
                   begin_offset |-> ChunkStart(txts, m[z][1] - first) + m[z][2]]]]]

KeepWithUrl(response) == SelectSeq(response, LAMBDA e : e.url # NoUrl)

\* mutant: the chunk's offset is not added to the mention offsets
AdjustOffset_NoShift(entity, offset) == entity

AdjustOffset(entity, offset) ==
    [entity EXCEPT !.mentions =
        [m \in DOMAIN @ |-> [@[m] EXCEPT !.begin_offset = @ + offset]]]

extract_entities_text(fnd, txts, first, offset) ==
    LET kept == KeepWithUrl(AnalyzeEntities(fnd, txts, first))
    IN [n \in 1..Len(kept) |-> AdjustOffset(kept[n], offset)]

Chunk(txts, offset) ==
    [text |-> Join(txts), texts |-> txts, char_offset |-> offset]

\* ------------------------------------------------------------------ page loop
\* mutant: the separator is not counted
PageChars_NoSeparator(page) == Len_(page)

PageChars(page) == Len_(page) + 2

PageBytes(page) == Utf8Len(page)

TooLong(page) == PageBytes(page) > BYTE_LIMIT

\* mutant: a chunk of exactly BYTE_LIMIT bytes is flushed too
MustFlush_AtLimit(total, page) == total + Utf8Len(page) >= BYTE_LIMIT

MustFlush(total, page) == total + PageBytes(page) > BYTE_LIMIT

NextBoundary(pmap, page) == Append(pmap, Last(pmap) + PageChars(page))

\* mutant: the pending chunk is analyzed before extract_entities returns
PageTooLong_Flushing ==
    /\ pc = "pages"
    /\ i < Len(pages)
    /\ LET page == pages[i + 1]
       IN /\ PageBytes(page) > BYTE_LIMIT
          /\ page_map' = Append(page_map, Last(page_map) + PageChars(page))
    /\ entities' = entities \o
          extract_entities_text(found, texts, i - Len(texts), character_offset)
    /\ chunks' = Append(chunks, Chunk(texts, character_offset))
    /\ i' = i + 1
    /\ outcome' = "oversize"
    /\ pc' = "return"
    /\ UNCHANGED <<run, ndocs, docIdx, errors, successes, message, doc_vars,
                   texts, total_bytes, character_offset, total_characters,
                   occ_vars, remote_vars, lookups, creates, posts>>

\* mutant: the oversize page ends the process, as a missing text does
PageTooLong_Exiting ==
    /\ pc = "pages"
    /\ i < Len(pages)
    /\ LET page == pages[i + 1]
       IN /\ PageBytes(page) > BYTE_LIMIT
          /\ page_map' = Append(page_map, Last(page_map) + PageChars(page))
    /\ i' = i + 1
    /\ outcome' = "oversize"
    /\ pc' = "exited"
    /\ UNCHANGED <<run, ndocs, docIdx, errors, successes, message, doc_vars,
                   texts, total_bytes, character_offset, total_characters,
                   entities, occ_vars, remote_vars, log_vars>>

\* the page alone is over the limit: extract_entities returns
PageTooLong ==
    /\ pc = "pages"
    /\ i < Len(pages)
    /\ LET page == pages[i + 1]
       IN /\ TooLong(page)
          /\ page_map' = NextBoundary(page_map, page)
    /\ i' = i + 1
    /\ outcome' = "oversize"
    /\ pc' = "return"
    /\ UNCHANGED <<run, ndocs, docIdx, errors, successes, message, doc_vars,
                   texts, total_bytes, character_offset, total_characters,
                   entities, occ_vars, remote_vars, log_vars>>

\* mutant: the offset of the new chunk is taken after the page was counted
PageFlush_OffsetAfter ==
    /\ pc = "pages"
    /\ i < Len(pages)
    /\ LET page == pages[i + 1]
       IN /\ PageBytes(page) <= BYTE_LIMIT
          /\ total_bytes + PageBytes(page) > BYTE_LIMIT
          /\ page_map' = Append(page_map, Last(page_map) + PageChars(page))
          /\ entities' = entities \o
                extract_entities_text(found, texts, i - Len(texts), character_offset)
          /\ chunks' = Append(chunks, Chunk(texts, character_offset))
          /\ character_offset' = total_characters + PageChars(page)
          /\ texts' = <<page \o Separator>>
          /\ total_bytes' = PageBytes(page)
          /\ total_characters' = total_characters + PageChars(page)
    /\ i' = i + 1
    /\ UNCHANGED <<main_vars, doc_vars, occ_vars, remote_vars, lookups, creates,
                   posts>>

\* the page does not fit: the pending chunk is analyzed, the page starts a new one
PageFlush ==
    /\ pc = "pages"
    /\ i < Len(pages)
    /\ LET page == pages[i + 1]
       IN /\ ~TooLong(page)
          /\ MustFlush(total_bytes, page)
          /\ page_map' = NextBoundary(page_map, page)
          /\ entities' = entities \o
                extract_entities_text(found, texts, i - Len(texts), character_offset)
          /\ chunks' = Append(chunks, Chunk(texts, character_offset))
          /\ character_offset' = total_characters
          /\ texts' = <<page \o Separator>>
          /\ total_bytes' = PageBytes(page)
          /\ total_characters' = total_characters + PageChars(page)
    /\ i' = i + 1
    /\ UNCHANGED <<main_vars, doc_vars, occ_vars, remote_vars, lookups, creates,
                   posts>>

\* the page fits: it joins the pending chunk
PageAppend ==
    /\ pc = "pages"
    /\ i < Len(pages)
    /\ LET page == pages[i + 1]
       IN /\ ~TooLong(page)
          /\ ~MustFlush(total_bytes, page)
          /\ page_map' = NextBoundary(page_map, page)
          /\ texts' = Append(texts, page \o Separator)
          /\ total_bytes' = total_bytes + PageBytes(page)
          /\ total_characters' = total_characters + PageChars(page)
    /\ i' = i + 1
    /\ UNCHANGED <<main_vars, doc_vars, character_offset, entities, occ_vars,
                   remote_vars, log_vars>>

\* after the loop: the remaining text is analyzed
FinalFlush ==
    /\ pc = "pages"
    /\ i = Len(pages)
    /\ entities' = entities \o
          extract_entities_text(found, texts, i - Len(texts), character_offset)
    /\ chunks' = Append(chunks, Chunk(texts, character_offset))
    /\ pc' = "existing"
    /\ UNCHANGED <<run, ndocs, docIdx, errors, successes, message, outcome,
                   doc_vars, i, texts, total_bytes, page_map, character_offset,
                   total_characters, occ_vars, remote_vars, lookups, creates,
                   posts>>

\* ------------------------------------------------------------------ helpers
\* documentcloud.toolbox.grouper: groups of num items, the last one filled up
grouper(seq, num, fillvalue) ==
    [g \in 1..((Len(seq) + num - 1) \div num) |->
        [k \in 1..num |->
            IF (g - 1) * num + k <= Len(seq) THEN seq[(g - 1) * num + k]
            ELSE fillvalue]]

\* [g for g in group if g is not None]
NotNone(group, fillvalue) == SelectSeq(group, LAMBDA g : g # fillvalue)

Range(s) == {s[n] : n \in DOMAIN s}

\* None as a member of a group of occurrence records
NoneRecord == [entity |-> NoneId, relevance |-> 0, occurrences |-> <<>>]

RECURSIVE bisect_left_loop(_, _, _, _)
\* mutant: bisect_left, the insertion point to the left of the entries equal to x
bisect_left_loop(a, x, lo, hi) ==
    IF lo < hi
    THEN LET mid == (lo + hi) \div 2
         IN IF a[mid + 1] < x THEN bisect_left_loop(a, x, mid + 1, hi)
            ELSE bisect_left_loop(a, x, lo, mid)
    ELSE lo

RECURSIVE bisect_loop(_, _, _, _)
bisect_loop(a, x, lo, hi) ==
    IF lo < hi
    THEN LET mid == (lo + hi) \div 2
         IN IF x < a[mid + 1] THEN bisect_loop(a, x, lo, mid)
            ELSE bisect_loop(a, x, mid + 1, hi)
    ELSE lo

\* bisect.bisect: the insertion point to the right of the entries equal to x
bisect(a, x) == bisect_loop(a, x, 0, Len(a))

\* a[n] of a Python list: a negative index counts from the end
Index(a, n) == IF n < 0 THEN a[Len(a) + n + 1] ELSE a[n + 1]

Occurrence(mention, pmap) ==
    LET offset == mention.begin_offset
        page == bisect(pmap, offset) - 1
    IN [content |-> mention.content,
        offset |-> offset,
        page |-> page,
        page_offset |-> offset - Index(pmap, page)]

transform_mentions(mentions, pmap) ==
    [m \in 1..Len(mentions) |-> Occurrence(mentions[m], pmap)]

\* ------------------------------------------------------------------ occurrences
\* get_existing_entities: the entity ids recorded for the document
GetExisting ==
    /\ pc = "existing"
    /\ existing_entities' = recorded
    /\ pc' = "lookup"
    /\ UNCHANGED <<run, ndocs, docIdx, errors, successes, message, outcome,
                   doc_vars, loop_vars, entity_map, create_groups,
                   collapsed_entities, taken, occurrence_json, submit_groups,
                   remote_vars, log_vars>>

\* get_existing_entities: the request fails, the set is empty
GetExistingFails ==
    /\ pc = "existing"
    /\ existing_entities' = {}
    /\ pc' = "lookup"
    /\ UNCHANGED <<run, ndocs, docIdx, errors, successes, message, outcome,
                   doc_vars, loop_vars, entity_map, create_groups,
                   collapsed_entities, taken, occurrence_json, submit_groups,
                   remote_vars, log_vars>>

\* the mapper sets the wikidata id of every entity
MapEntities(ents) ==
    [n \in 1..Len(ents) |-> [ents[n] EXCEPT !.wikidata_id = UrlToId(ents[n].url)]]

\* mutant: the entities without a wikidata id are kept
WithId_All(ents) == ents

WithId(ents) == SelectSeq(ents, LAMBDA e : e.wikidata_id # NoneId)

WikidataIds(ents) ==
    LET known == WithId(ents)
    IN [n \in 1..Len(known) |-> known[n].wikidata_id]

\* the ids a GET entities/ request names
LookupRequests(ids) == <<ids>>

Missing(ids, emap) == SelectSeq(ids, LAMBDA q : q \notin DOMAIN emap)

CreateGroups(missing) == grouper(missing, BULK_LIMIT, NoneId)

\* get_or_create_entities up to the answer of GET entities/
Lookup ==
    /\ pc = "lookup"
    /\ LET mapped == MapEntities(entities)
           ids == WikidataIds(mapped)
           emap == [w \in Range(ids) \cap catalog |-> CatalogId(w)]
           groups == CreateGroups(Missing(ids, emap))
       IN /\ entities' = mapped
          /\ lookups' = lookups \o LookupRequests(ids)
          /\ entity_map' = emap
          /\ create_groups' = groups
          /\ pc' = IF groups = <<>> THEN "collapse" ELSE "create"
    /\ UNCHANGED <<run, ndocs, docIdx, errors, successes, message, outcome,
                   doc_vars, i, texts, total_bytes, page_map, character_offset,
                   total_characters, existing_entities, collapsed_entities, taken,
                   occurrence_json, submit_groups, remote_vars, chunks, creates,
                   posts>>

\* get_or_create_entities: GET entities/ raises APIError, nothing catches it
LookupFails ==
    /\ pc = "lookup"
    /\ LET mapped == MapEntities(entities)
       IN /\ entities' = mapped
          /\ lookups' = lookups \o LookupRequests(WikidataIds(mapped))
    /\ outcome' = "lookup failed"
    /\ pc' = "crashed"
    /\ UNCHANGED <<run, ndocs, docIdx, errors, successes, message, doc_vars,
                   i, texts, total_bytes, page_map, character_offset,
                   total_characters, occ_vars, remote_vars, chunks, creates,
                   posts>>

CreateRequest(group) == NotNone(group, NoneId)

\* POST entities/ for the next group of missing ids: the created entities return
CreateGroup ==
    /\ pc = "create"
    /\ LET request == CreateRequest(Head(create_groups))
       IN /\ creates' = Append(creates, request)
          /\ catalog' = catalog \cup Range(request)
          /\ entity_map' =
                [w \in Range(request) |-> CatalogId(w)] @@ entity_map
    /\ create_groups' = Tail(create_groups)
    /\ pc' = IF Tail(create_groups) = <<>> THEN "collapse" ELSE "create"
    /\ UNCHANGED <<run, ndocs, docIdx, errors, successes, message, outcome,
                   doc_vars, loop_vars, existing_entities, collapsed_entities, taken,
                   occurrence_json, submit_groups, recorded, accepted, prior,
                   chunks, lookups, posts>>

\* POST entities/ answers without the entities (status not checked)
CreateGroupEmpty ==
    /\ pc = "create"
    /\ creates' = Append(creates, CreateRequest(Head(create_groups)))
    /\ create_groups' = Tail(create_groups)
    /\ pc' = IF Tail(create_groups) = <<>> THEN "collapse" ELSE "create"
    /\ UNCHANGED <<run, ndocs, docIdx, errors, successes, message, outcome,
                   doc_vars, loop_vars, existing_entities, entity_map,
                   collapsed_entities, taken, occurrence_json, submit_groups,
                   remote_vars, chunks, lookups, posts>>

\* POST entities/ raises APIError, nothing catches it
CreateGroupFails ==
    /\ pc = "create"
    /\ creates' = Append(creates, CreateRequest(Head(create_groups)))
    /\ outcome' = "create failed"
    /\ pc' = "crashed"
    /\ UNCHANGED <<run, ndocs, docIdx, errors, successes, message, doc_vars,
                   loop_vars, occ_vars, remote_vars, chunks, lookups, posts>>

\* mutant: the ids compared are of different types, none is ever found
InExisting_Never(entity_id, existing) == FALSE

\* entity_id in existing_entities
InExisting(entity_id, existing) == entity_id \in existing

\* the position of the record of entity_id in collapsed_entities, 0 if none
Position(collapsed, entity_id) ==
    LET at == {n \in DOMAIN collapsed : collapsed[n].entity = entity_id}
    IN IF at = {} THEN 0 ELSE CHOOSE n \in at : TRUE

\* mutant: a later entity of the same id replaces the mentions collected
CollapseOne_Overwrite(collapsed, entity, emap, existing) ==
    LET entity_id == emap[entity.wikidata_id]
        n == Position(collapsed, entity_id)
    IN IF entity_id \in existing THEN collapsed
       ELSE IF n # 0
       THEN [collapsed EXCEPT ![n].mentions = entity.mentions]
       ELSE Append(collapsed, [entity |-> entity_id,
                               salience |-> entity.salience,
                               mentions |-> entity.mentions])

\* mutant: the test for an existing entity is inverted
CollapseOne_Inverted(collapsed, entity, emap, existing) ==
    LET entity_id == emap[entity.wikidata_id]
        n == Position(collapsed, entity_id)
    IN IF entity_id \notin existing THEN collapsed
       ELSE IF n # 0
       THEN [collapsed EXCEPT ![n].mentions = @ \o entity.mentions]
       ELSE Append(collapsed, [entity |-> entity_id,
                               salience |-> entity.salience,
                               mentions |-> entity.mentions])

\* one pass of the collapse loop: entity joins collapsed_entities
CollapseOne(collapsed, entity, emap, existing) ==
    LET entity_id == emap[entity.wikidata_id]
        n == Position(collapsed, entity_id)
    IN IF InExisting(entity_id, existing) THEN collapsed
       ELSE IF n # 0
       THEN [collapsed EXCEPT ![n].mentions = @ \o entity.mentions]
       ELSE Append(collapsed, [entity |-> entity_id,
                               salience |-> entity.salience,
                               mentions |-> entity.mentions])

OccurrenceJson(collapsed, existing, pmap) ==
    LET kept == SelectSeq(collapsed, LAMBDA c : ~InExisting(c.entity, existing))
    IN [n \in 1..Len(kept) |->
          [entity |-> kept[n].entity,
           relevance |-> kept[n].salience,
           occurrences |-> transform_mentions(kept[n].mentions, pmap)]]

SubmitGroups(records) == grouper(records, BULK_LIMIT, NoneRecord)

\* entity_map[...] raises KeyError for an id no answer has mapped
Unmapped(entity, emap) == entity.wikidata_id \notin DOMAIN emap

\* one pass of the collapse loop over the entities that have a wikidata id
CollapseStep ==
    /\ pc = "collapse"
    /\ taken < Len(WithId(entities))
    /\ LET entity == WithId(entities)[taken + 1]
       IN /\ ~Unmapped(entity, entity_map)
          /\ collapsed_entities' = CollapseOne(collapsed_entities, entity,
                                               entity_map, existing_entities)
    /\ taken' = taken + 1
    /\ UNCHANGED <<main_vars, doc_vars, loop_vars, existing_entities, entity_map,
                   create_groups, occurrence_json, submit_groups, remote_vars,
                   log_vars>>

\* the collapse loop raises KeyError, nothing catches it
CollapseFails ==
    /\ pc = "collapse"
    /\ taken < Len(WithId(entities))
    /\ Unmapped(WithId(entities)[taken + 1], entity_map)
    /\ outcome' = "key error"
    /\ pc' = "crashed"
    /\ UNCHANGED <<run, ndocs, docIdx, errors, successes, message, doc_vars,
                   loop_vars, occ_vars, remote_vars, log_vars>>

\* after the collapse loop: the occurrence records and their groups
BuildRecords ==
    /\ pc = "collapse"
    /\ taken = Len(WithId(entities))
    /\ LET records == OccurrenceJson(collapsed_entities, existing_entities,
                                     page_map)
       IN /\ occurrence_json' = records
          /\ submit_groups' = SubmitGroups(records)
          /\ pc' = IF records = <<>> THEN "return" ELSE "submit"
          /\ outcome' = IF records = <<>> THEN "done" ELSE outcome
    /\ UNCHANGED <<run, ndocs, docIdx, errors, successes, message, doc_vars,
                   loop_vars, existing_entities, entity_map, create_groups,
                   collapsed_entities, taken, remote_vars, log_vars>>

\* mutant: the group is sent as grouper filled it
SubmitRequest_Padded(group) == group

SubmitRequest(group) == NotNone(group, NoneRecord)

Entities(records) == {records[n].entity : n \in DOMAIN records}

AfterGroup(rest) == IF rest = <<>> THEN "return" ELSE "submit"

\* POST documents/{id}/entities/ for the next group: accepted
SubmitGroup ==
    /\ pc = "submit"
    /\ LET request == SubmitRequest(Head(submit_groups))
       IN /\ posts' = Append(posts, [records |-> request, status |-> 200])
          /\ recorded' = recorded \cup Entities(request)
          /\ accepted' = accepted \cup Entities(request)
    /\ submit_groups' = Tail(submit_groups)
    /\ pc' = AfterGroup(Tail(submit_groups))
    /\ outcome' = IF Tail(submit_groups) = <<>> THEN "done" ELSE outcome
    /\ UNCHANGED <<run, ndocs, docIdx, errors, successes, message, doc_vars,
                   loop_vars, existing_entities, entity_map, create_groups,
                   collapsed_entities, taken, occurrence_json, catalog, prior,
                   chunks, lookups, creates>>

\* mutant: after status 400 the loop goes on with the next group
SubmitGroupRejected_Continues ==
    /\ pc = "submit"
    /\ posts' = Append(posts, [records |-> SubmitRequest(Head(submit_groups)),
                               status |-> 400])
    /\ message' = "indexing"
    /\ submit_groups' = Tail(submit_groups)
    /\ pc' = AfterGroup(Tail(submit_groups))
    /\ outcome' = IF Tail(submit_groups) = <<>> THEN "done" ELSE outcome
    /\ UNCHANGED <<run, ndocs, docIdx, errors, successes, doc_vars, loop_vars,
                   existing_entities, entity_map, create_groups,
                   collapsed_entities, taken, occurrence_json, remote_vars, chunks,
                   lookups, creates>>

\* the POST raises APIError with status 400: message and sys.exit(0)
SubmitGroupRejected ==
    /\ pc = "submit"
    /\ posts' = Append(posts, [records |-> SubmitRequest(Head(submit_groups)),
                               status |-> 400])
    /\ message' = "indexing"
    /\ outcome' = "rejected"
    /\ pc' = "exited"
    /\ UNCHANGED <<run, ndocs, docIdx, errors, successes, doc_vars, loop_vars,
                   occ_vars, remote_vars, chunks, lookups, creates>>

\* mutant: the failed group is not counted
SubmitGroupFails_Uncounted ==
    /\ pc = "submit"
    /\ \E status \in {403, 500} :
        posts' = Append(posts, [records |-> SubmitRequest(Head(submit_groups)),
                                status |-> status])
    /\ submit_groups' = Tail(submit_groups)
    /\ pc' = AfterGroup(Tail(submit_groups))
    /\ outcome' = IF Tail(submit_groups) = <<>> THEN "done" ELSE outcome
    /\ UNCHANGED <<run, ndocs, docIdx, errors, successes, message, doc_vars,
                   loop_vars, existing_entities, entity_map, create_groups,
                   collapsed_entities, taken, occurrence_json, remote_vars, chunks,
                   lookups, creates>>

\* the POST raises APIError with another status: counted, the loop goes on
SubmitGroupFails ==
    /\ pc = "submit"
    /\ \E status \in {403, 500} :
        posts' = Append(posts, [records |-> SubmitRequest(Head(submit_groups)),
                                status |-> status])
    /\ errors' = errors + 1
    /\ submit_groups' = Tail(submit_groups)
    /\ pc' = AfterGroup(Tail(submit_groups))
    /\ outcome' = IF Tail(submit_groups) = <<>> THEN "done" ELSE outcome
    /\ UNCHANGED <<run, ndocs, docIdx, successes, message, doc_vars, loop_vars,
                   existing_entities, entity_map, create_groups,
                   collapsed_entities, taken, occurrence_json, remote_vars, chunks,
                   lookups, creates>>

\* extract_entities returns to the loop of main: its locals are gone
Return ==
    /\ pc = "return"
    /\ pc' = "main"
    /\ ResetLocals
    /\ UNCHANGED <<run, ndocs, docIdx, errors, successes, message, outcome,
                   doc_vars, remote_vars>>

Ended == pc \in {"finished", "exited", "crashed"}

\* the add-on is started again on the same document: a new process, the
\* remote state as the earlier run left it
Rerun ==
    /\ Ended
    /\ ndocs = 1
    /\ outcome # "missing"
    /\ run < MaxRuns
    /\ run' = run + 1
    /\ prior' = accepted
    /\ pc' = "main"
    /\ docIdx' = 0
    /\ errors' = 0
    /\ successes' = 0
    /\ message' = "none"
    /\ outcome' = "none"
    /\ ResetLocals
    /\ UNCHANGED <<ndocs, doc_vars, catalog, recorded, accepted>>

\* ------------------------------------------------------------------ specifications
Next ==
    \/ StartDocument(PipeDocs)
    \/ DocumentMissing
    \/ MainDone
    \/ PageTooLong
    \/ PageFlush
    \/ PageAppend
    \/ FinalFlush
    \/ GetExisting
    \/ GetExistingFails
    \/ Lookup
    \/ LookupFails
    \/ CreateGroup
    \/ CreateGroupEmpty
    \/ CreateGroupFails
    \/ CollapseStep
    \/ CollapseFails
    \/ BuildRecords
    \/ SubmitGroup
    \/ SubmitGroupRejected
    \/ SubmitGroupFails
    \/ Return
    \/ Rerun

\* the pipeline over the documents of a run
Spec == Init /\ [][Next]_vars

InitChunk == Init /\ ndocs = 1

NextChunk ==
    \/ StartDocument(ChunkDocs)
    \/ DocumentMissing
    \/ MainDone
    \/ PageTooLong
    \/ PageFlush
    \/ PageAppend
    \/ FinalFlush
    \/ GetExisting
    \/ GetExistingFails
    \/ Lookup
    \/ LookupFails
    \/ CreateGroup
    \/ CreateGroupEmpty
    \/ CreateGroupFails
    \/ CollapseStep
    \/ CollapseFails
    \/ BuildRecords
    \/ SubmitGroup
    \/ SubmitGroupRejected
    \/ SubmitGroupFails
    \/ Return

\* one document of any page layout
SpecChunk == InitChunk /\ [][NextChunk]_vars

\* ------------------------------------------------------------------ reconciler
\* the offset maps of at most MaxMapLen pages, boundaries at most MaxGap apart
RECURSIVE OffsetMaps(_)
OffsetMaps(n) ==
    IF n = 0 THEN {<<0>>}
    ELSE LET shorter == OffsetMaps(n - 1)
         IN shorter \cup {Append(m, Last(m) + gap) : m \in shorter, gap \in 1..MaxGap}

InitReconcile ==
    /\ pc = "reconcile"
    /\ run = 1
    /\ ndocs = 1
    /\ docIdx = 1
    /\ errors = 0
    /\ successes = 0
    /\ message = "none"
    /\ outcome = "running"
    /\ pages = <<>>
    /\ found = <<>>
    /\ catalog = {}
    /\ recorded = {}
    /\ accepted = {}
    /\ prior = {}
    /\ page_map \in {m \in OffsetMaps(MaxMapLen) : Len(m) > 1}
    /\ i = 0
    /\ texts = <<>>
    /\ total_bytes = 0
    /\ character_offset = 0
    /\ total_characters = 0
    /\ entities = <<>>
    /\ existing_entities = {}
    /\ entity_map = <<>>
    /\ create_groups = <<>>
    /\ collapsed_entities = <<>>
    /\ taken = 0
    /\ occurrence_json = <<>>
    /\ submit_groups = <<>>
    /\ chunks = <<>>
    /\ lookups = <<>>
    /\ creates = <<>>
    /\ posts = <<>>

\* transform_mentions on one mention at any offset of the map, or next to it
Reconcile ==
    /\ pc = "reconcile"
    /\ \E offset \in -1..Last(page_map) :
        occurrence_json' = <<[entity |-> CatalogId(1), relevance |-> 1,
            occurrences |-> transform_mentions(
                <<[content |-> <<0, 0>>, begin_offset |-> offset]>>, page_map)]>>
    /\ pc' = "reconciled"
    /\ UNCHANGED <<run, ndocs, docIdx, errors, successes, message, outcome,
                   doc_vars, loop_vars, existing_entities, entity_map,
                   create_groups, collapsed_entities, taken, submit_groups,
                   remote_vars, log_vars>>

NextReconcile == Reconcile

\* the offset reconciler on any offset map
SpecReconcile == InitReconcile /\ [][NextReconcile]_vars

\* ------------------------------------------------------------------ properties
\* the page texts, each followed by the separator
WithSeparators(pgs) == [p \in 1..Len(pgs) |-> pgs[p] \o Separator]

\* the global character offset where page p (0-based) begins
TrueStart(pgs, p) == Len_(Join(SubSeq(WithSeparators(pgs), 1, p)))

AllPagesFit == \A p \in DOMAIN pages : Utf8Len(pages[p]) <= BYTE_LIMIT

\* the page loop of extract_entities has completed for the document
LoopCompleted ==
    /\ pc \in {"existing", "lookup", "create", "collapse", "submit", "return",
               "exited", "crashed"}
    /\ outcome \notin {"oversize", "missing"}

\* the records of all the POST documents/{id}/entities/ requests, in order
Posted == Join([n \in DOMAIN posts |-> posts[n].records])

\* the index of the first page of the n-th chunk
FirstPage(n) == Len(Join([m \in 1..(n - 1) |-> chunks[m].texts]))

\* C1: when every page is at most BYTE_LIMIT bytes, every chunk handed to
\* extract_entities_text, separators included, is at most BYTE_LIMIT bytes.
C1_ChunksWithinLimit ==
    AllPagesFit => \A n \in DOMAIN chunks : Utf8Len(chunks[n].text) <= BYTE_LIMIT

\* C2: a mention found at in-page offset k of page p is submitted with
\* page = p, page_offset = k and offset = OffsetMap[p] + k; p is a page of
\* the document and lies in a chunk that was sent.
C2_Attribution ==
    \A r \in Range(Posted) : \A o \in Range(r.occurrences) :
        LET p == o.content[1]
            at == o.content[2]
        IN /\ o.page = p
           /\ o.page_offset = at
           /\ o.offset = TrueStart(pages, p) + at
           /\ o.page \in 0..(Len(pages) - 1)
           /\ \E n \in DOMAIN chunks :
                /\ FirstPage(n) <= o.page
                /\ o.page < FirstPage(n) + Len(chunks[n].texts)
                /\ chunks[n].char_offset <= o.offset
                /\ o.offset < chunks[n].char_offset + Len_(chunks[n].text)

\* a mention of the second chunk, on the separator of a later page, is posted
C2_Witness ==
    /\ Len(chunks) >= 2
    /\ \E r \in Range(Posted) : \E o \in Range(r.occurrences) :
        /\ o.page >= 1
        /\ o.page_offset > 0
        /\ o.offset >= chunks[2].char_offset

\* C3: for an offset with OffsetMap[p] <= o < OffsetMap[p+1] the reconciler
\* returns page p and page_offset = o - OffsetMap[p] >= 0.
C3_Reconciled ==
    pc = "reconciled" =>
        \A r \in Range(occurrence_json) : \A o \in Range(r.occurrences) :
            \A p \in 0..(Len(page_map) - 2) :
                (page_map[p + 1] <= o.offset /\ o.offset < page_map[p + 2]) =>
                    /\ o.page = p
                    /\ o.page_offset = o.offset - page_map[p + 1]
                    /\ o.page_offset >= 0

\* an offset exactly on the boundary of a later page has been reconciled
C3_Witness ==
    /\ pc = "reconciled"
    /\ \E r \in Range(occurrence_json) : \E o \in Range(r.occurrences) :
        /\ o.page >= 1
        /\ o.offset = page_map[o.page + 1]

\* C4: when the page loop completes, page_map has page_count + 1 entries,
\* starts at 0 and grows by the page's characters + 2 at every page, so it
\* is strictly increasing.
C4_OffsetMap ==
    LoopCompleted =>
        /\ Len(page_map) = Len(pages) + 1
        /\ page_map[1] = 0
        /\ \A p \in 1..Len(pages) :
            /\ page_map[p + 1] - page_map[p] = Len_(pages[p]) + 2
            /\ page_map[p + 1] > page_map[p]

\* three pages, an empty one among them, have gone into two chunks
C4_Witness ==
    /\ LoopCompleted
    /\ Len(pages) = 3
    /\ Len(chunks) = 2
    /\ \E p \in DOMAIN pages : pages[p] = <<>>

\* C5: the chunks sent, in order, are the pages with their separators in
\* page order, every page once; no flush means one chunk; two pages that do
\* not fit together mean two chunks.
C5_ChunksArePages ==
    LoopCompleted =>
        /\ Join([n \in DOMAIN chunks |-> chunks[n].texts]) = WithSeparators(pages)
        /\ Join([n \in DOMAIN chunks |-> chunks[n].text]) =
               Join(WithSeparators(pages))
        /\ \A n \in DOMAIN chunks : chunks[n].text = Join(chunks[n].texts)
        /\ Utf8Len(Join(pages)) <= BYTE_LIMIT => Len(chunks) = 1
        /\ (Len(pages) = 2 /\ Utf8Len(Join(pages)) > BYTE_LIMIT) => Len(chunks) = 2

\* three pages have gone into three chunks
C5_Witness ==
    /\ LoopCompleted
    /\ Len(pages) = 3
    /\ Len(chunks) = 3

\* the entities that have a wikidata id and an entity id in entity_map
Resolved ==
    SelectSeq(WithId(entities), LAMBDA e : e.wikidata_id \in DOMAIN entity_map)

\* the mentions, in encounter order, of the entities resolved to entity_id
MentionsOf(entity_id) ==
    LET same == SelectSeq(Resolved,
                          LAMBDA e : entity_map[e.wikidata_id] = entity_id)
    IN Join([n \in 1..Len(same) |-> same[n].mentions])

AsMentions(occurrences) ==
    [m \in 1..Len(occurrences) |->
        [content |-> occurrences[m].content,
         begin_offset |-> occurrences[m].offset]]

DistinctEntities(records) ==
    \A a, b \in DOMAIN records : a # b => records[a].entity # records[b].entity

\* C6: the records built and the records posted hold at most one record per
\* entity id, and a record's occurrences are the mentions of all the
\* entities resolved to that id, in encounter order, none lost or repeated.
C6_OneRecordPerEntity ==
    /\ DistinctEntities(occurrence_json)
    /\ DistinctEntities(Posted)
    /\ \A r \in Range(occurrence_json) \cup Range(Posted) :
        AsMentions(r.occurrences) = MentionsOf(r.entity)

\* a record posted holds the mentions of two entities of two chunks
C6_Witness ==
    /\ Len(chunks) = 2
    /\ \E r \in Range(Posted) :
        /\ Len(r.occurrences) >= 2
        /\ \E a, b \in DOMAIN Resolved :
            /\ a # b
            /\ entity_map[Resolved[a].wikidata_id] = r.entity
            /\ entity_map[Resolved[b].wikidata_id] = r.entity
            /\ Resolved[a].mentions[1].begin_offset < chunks[2].char_offset
            /\ Resolved[b].mentions[1].begin_offset >= chunks[2].char_offset

\* C7: no record posted carries an entity id of the set
\* get_existing_entities returned; when the document is done, the ids
\* posted are the ids of the resolved entities that are not in that set.
C7_ExistingExcluded ==
    /\ \A r \in Range(Posted) : r.entity \notin existing_entities
    /\ (pc = "return" /\ outcome = "done") =>
        Entities(Posted) =
            {entity_map[e.wikidata_id] : e \in Range(Resolved)} \ existing_entities

\* in a first run one entity is left out as existing and another is posted
C7_Witness ==
    /\ pc = "return"
    /\ outcome = "done"
    /\ run = 1
    /\ posts # <<>>
    /\ \E e \in Range(Resolved) : entity_map[e.wikidata_id] \in existing_entities

\* C8: in a second run whose existing-entities call returns every entity id
\* the first run posted successfully, no record is posted for such an id.
C8_NoDuplicateOnRerun ==
    (run > 1 /\ prior \subseteq existing_entities) =>
        \A r \in Range(Posted) : r.entity \notin prior

\* the second run finds entities the first run posted, and posts the rest
C8_Witness ==
    /\ run = 2
    /\ pc = "return"
    /\ prior # {}
    /\ prior \subseteq existing_entities
    /\ posts # <<>>
    /\ \E e \in Range(Resolved) : entity_map[e.wikidata_id] \in prior

\* C9: when a document fails terminally the later documents of the run are
\* still processed: the process does not end before the loop of main has
\* taken every document.
C9_LaterDocumentsProcessed == pc = "exited" => docIdx = ndocs

\* C10: extract_entities returns on a page over BYTE_LIMIT before any remote
\* call was made for the document.
C10_NoRemoteCall ==
    (pc = "return" /\ outcome = "oversize") =>
        /\ chunks = <<>>
        /\ lookups = <<>>
        /\ creates = <<>>
        /\ posts = <<>>

\* C10 as amended: no catalog lookup or create and no submission is made;
\* extraction calls are made for the chunks flushed before the page was
\* reached, none when the pages before it are at most BYTE_LIMIT bytes.
C10_NoCatalogCall ==
    (pc = "return" /\ outcome = "oversize") =>
        LET sent == Join([n \in DOMAIN chunks |-> chunks[n].texts])
        IN /\ lookups = <<>>
           /\ creates = <<>>
           /\ posts = <<>>
           /\ Utf8Len(pages[i]) > BYTE_LIMIT
           /\ Len(sent) <= i - 1
           /\ sent = SubSeq(WithSeparators(pages), 1, Len(sent))
           /\ chunks = <<>> <=> Utf8Len(Join(SubSeq(pages, 1, i - 1))) <= BYTE_LIMIT

\* a page over the limit is met after a chunk was analyzed
C10_Witness ==
    /\ pc = "return"
    /\ outcome = "oversize"
    /\ chunks # <<>>

\* C11: a document with a page over BYTE_LIMIT gets no submission and no
\* catalog entity created, also when earlier pages were analyzed; the
\* process goes on: extract_entities returns to the loop of main, which
\* takes the next document when there is one.
C11_OversizeNotFatal ==
    outcome = "oversize" =>
        /\ posts = <<>>
        /\ creates = <<>>
        /\ pc \in {"return", "main", "finished"}
        /\ pc = "finished" => docIdx = ndocs
        /\ (pc = "main" /\ docIdx < ndocs) => ENABLED StartDocument(PipeDocs)

\* the oversize page came after a chunk whose entities were extracted, and
\* another document is still to come
C11_Witness ==
    /\ outcome = "oversize"
    /\ pc = "return"
    /\ chunks # <<>>
    /\ entities # <<>>
    /\ docIdx < ndocs

\* C12: when the POST of a group is answered with status 400 the message is
\* set and that request is the last one for the document; the records of
\* the groups accepted before it stay recorded.
C12_RejectedStops ==
    \A n \in DOMAIN posts :
        posts[n].status = 400 =>
            /\ n = Len(posts)
            /\ message = "indexing"
            /\ \A m \in 1..(n - 1) :
                posts[m].status = 200 =>
                    Entities(posts[m].records) \subseteq recorded

\* the first group was rejected while another group was still to be posted
C12_Witness ==
    /\ Len(posts) = 1
    /\ posts[1].status = 400
    /\ Len(submit_groups) = 2
    /\ message = "indexing"

\* the POST requests of the document that failed with a non-terminal status
FailedPosts == {n \in DOMAIN posts : posts[n].status \notin {200, 400}}

\* C13: a group that fails with status 403 (or another status that is not
\* 400) adds exactly one to self.errors and does not stop the loop: no group
\* is skipped, and when the loop ends every group has been posted.  For the
\* first document of a run self.errors is the number of such groups.
C13_ErrorsCounted ==
    /\ (docIdx = 1 /\ pc \in {"submit", "return", "exited"}) =>
            errors = Cardinality(FailedPosts)
    /\ pc \in {"submit", "return"} =>
        /\ Len(posts) + Len(submit_groups) = Len(SubmitGroups(occurrence_json))
        /\ \A n \in DOMAIN posts :
            posts[n].records = SubmitRequest(SubmitGroups(occurrence_json)[n])
    /\ (pc = "return" /\ outcome = "done") => submit_groups = <<>>

\* the first group failed with status 403, the second was posted after it
C13_Witness ==
    /\ docIdx = 1
    /\ pc = "return"
    /\ Len(posts) = 2
    /\ posts[1].status = 403
    /\ posts[2].status = 200
    /\ errors = 1

\* C14: self.successes is the number of groups posted successfully so far
\* (stated for the first document of a run, whose requests are all logged).
C14_SuccessesCounted ==
    (docIdx = 1 /\ pc \in {"submit", "return", "exited"}) =>
        successes = Cardinality({n \in DOMAIN posts : posts[n].status = 200})

\* C15: a failed catalog lookup, a failed create request or a create answer
\* that lacks an id leaves the ids unmapped and the pipeline goes on: no
\* exception leaves get_or_create_entities or the collapse loop.
C15_ResolverFailureContained ==
    pc = "crashed" =>
        outcome \notin {"lookup failed", "create failed", "key error"}

\* C16: every GET entities/ request names at most BULK_LIMIT ids, every
\* POST entities/ request has at most BULK_LIMIT items and every POST
\* documents/{id}/entities/ request has at most BULK_LIMIT records.
C16_BatchesWithinLimit ==
    /\ \A n \in DOMAIN lookups : Len(lookups[n]) <= BULK_LIMIT
    /\ \A n \in DOMAIN creates : Len(creates[n]) <= BULK_LIMIT
    /\ \A n \in DOMAIN posts : Len(posts[n].records) <= BULK_LIMIT

\* C17: an entity the mapper cannot resolve (wikidata id None) is left out
\* of every later step: None is in no lookup or create request, every
\* record comes from entities that have an id, and the other entities of
\* the document are resolved and posted all the same.
C17_UnresolvedExcluded ==
    /\ \A n \in DOMAIN lookups : NoneId \notin Range(lookups[n])
    /\ \A n \in DOMAIN creates : NoneId \notin Range(creates[n])
    /\ \A r \in Range(occurrence_json) \cup Range(Posted) :
        /\ r.entity # CatalogId(NoneId)
        /\ \E e \in Range(entities) :
            /\ e.wikidata_id # NoneId
            /\ e.salience = r.relevance
            /\ entity_map[e.wikidata_id] = r.entity
        /\ Len(r.occurrences) = Len(MentionsOf(r.entity))
    /\ (pc = "return" /\ outcome = "done") =>
        \A e \in Range(entities) :
            (e.wikidata_id # NoneId /\ ~InExisting(entity_map[e.wikidata_id],
                                                   existing_entities)) =>
                entity_map[e.wikidata_id] \in Entities(Posted)

\* the document held an entity the mapper could not resolve and another
\* one, which was posted
C17_Witness ==
    /\ pc = "return"
    /\ outcome = "done"
    /\ lookups # <<>>
    /\ \E e \in Range(entities) : e.url # NoUrl /\ e.wikidata_id = NoneId
    /\ \E r \in Range(Posted) : Len(r.occurrences) = 1

\* the wikidata ids of all the POST entities/ requests of the document
Created == Join(creates)

\* C18: the ids sent for creation are ids the lookup named and found no
\* entity for, and no id is sent for creation twice in one pass over the
\* document.
C18_CreatedOnce ==
    /\ \A n \in DOMAIN Created :
        \E l \in DOMAIN lookups : Created[n] \in Range(lookups[l])
    /\ \A a, b \in DOMAIN Created : a # b => Created[a] # Created[b]

\* C19: every chunk is sent with char_offset = page_map[first page of the
\* chunk], the characters of the document before that page (0 for the first
\* chunk); in the page loop total_characters is the last entry of page_map
\* and character_offset is the boundary of the pending chunk's first page.
C19_ChunkOffsets ==
    /\ \A n \in DOMAIN chunks :
        /\ chunks[n].char_offset = page_map[FirstPage(n) + 1]
        /\ chunks[n].char_offset = TrueStart(pages, FirstPage(n))
        /\ n = 1 => chunks[n].char_offset = 0
    /\ pc = "pages" =>
        /\ total_characters = Last(page_map)
        /\ character_offset = page_map[i - Len(texts) + 1]

\* three chunks were sent, the later ones at growing offsets
C19_Witness ==
    /\ Len(chunks) = 3
    /\ chunks[2].char_offset > 0
    /\ chunks[3].char_offset > chunks[2].char_offset
    /\ chunks[3].char_offset = page_map[3]

\* C20: when the submission loop ends without a status 400, the requests in
\* order carry the occurrence records in order, each record once; every
\* request but the last carries BULK_LIMIT records, the last at least one;
\* no request carries the fill value of grouper; no record, no request.
C20_AllRecordsPosted ==
    /\ \A n \in DOMAIN posts : NoneRecord \notin Range(posts[n].records)
    /\ pc = "return" =>
        /\ Posted = occurrence_json
        /\ \A n \in 1..(Len(posts) - 1) : Len(posts[n].records) = BULK_LIMIT
        /\ posts # <<>> =>
            /\ Len(Last(posts).records) >= 1
            /\ Len(Last(posts).records) <= BULK_LIMIT
        /\ occurrence_json = <<>> => posts = <<>>

\* BULK_LIMIT + 1 records went out in two requests
C20_Witness ==
    /\ pc = "return"
    /\ Len(occurrence_json) = BULK_LIMIT + 1
    /\ Len(posts) = 2
    /\ Len(posts[1].records) = BULK_LIMIT
    /\ Len(posts[2].records) = 1

====
